---- MODULE Spec2Model ----
(***************************************************************************)
(* The review server of threadline: the route threadlineCheckRoute, the    *)
(* dispatcher processExperts and the per-rule workers processExpert /      *)
(* processThreadline, with the glob matcher matchesPattern.                *)
(*                                                                         *)
(* The repository holds two revisions of the server.  The "expert"         *)
(* revision takes the api key from the request body and wraps the backend  *)
(* call of a rule in try/catch (single-expert.ts); the "threadline"        *)
(* revision takes the key from the environment and lets a failing backend  *)
(* call reject (processThreadline in result.ts).  Both are dispatched by   *)
(* the same Promise.race / Promise.allSettled code.                        *)
(*                                                                         *)
(* Strings are sequences of atoms: a path or a pattern is a sequence of    *)
(* one-character strings, a message is a sequence of text fragments.       *)
(* A JavaScript value is a record tagged with its type.  Of a per-rule     *)
(* result the model keeps expertId, status and reasoning.                  *)
(*                                                                         *)
(* State of one check request:                                             *)
(*   revision       which revision of the server runs                      *)
(*   body, envKey   the request body and the OPENAI_API_KEY of the server  *)
(*   pc             "received", "answered" (validation failed), "waiting"  *)
(*                  (await Promise.allSettled), "returned", "rejected"     *)
(*   response       what the route has sent                                *)
(*   experts        the rules processExperts was called with               *)
(*   call[i]        the backend call of rule i: none, pending, done        *)
(*   timer[i]       the timer of rule i: set, fired                        *)
(*   race[i]        the promise Promise.race gave for rule i               *)
(*   expertResults, counted, report                                        *)
(*                  the per-rule results before the filter, the counter    *)
(*                  incremented for each rule, and the value returned      *)
(*                                                                         *)
(* Three further specifications share the module; each leaves the state    *)
(* of the others at rest.                                                  *)
(*   MatchSpec  one call of matchesPattern on a path of a small tree:      *)
(*              testedPath, testedPattern, verdict                         *)
(*   CliSpec    one run of checkCommand of the command-line client, with   *)
(*              findExperts and getGitDiff: cliPc ("start", "found",       *)
(*              "collected", "exited"), expertsFolder, foundExperts,       *)
(*              cliKeys, repo (git status and the git command that fails), *)
(*              commands (the git commands run), gitDiff, reviewResponse,  *)
(*              thrown (the error caught) and exitCode                     *)
(*   CiSpec     one call of getGitHubDiff: ciEnv (the GITHUB_* variables), *)
(*              repo (parents of the tip commit, failing git command),     *)
(*              commands, gitDiff and thrown                               *)
(***************************************************************************)
EXTENDS Integers, Sequences, FiniteSets, TLC

VARIABLES revision, body, envKey, response, pc, experts, call, timer, race,
          expertResults, counted, report

\* one call of matchesPattern: its arguments and what it gave
VARIABLES testedPath, testedPattern, verdict

\* one run of checkCommand of the command-line client
VARIABLES cliPc, expertsFolder, foundExperts, cliKeys, repo, commands, gitDiff,
          reviewResponse, thrown, exitCode

\* the GITHUB_* variables of the environment getGitHubDiff runs in
VARIABLES ciEnv

requestVars == <<body, envKey, response, pc, experts, call, timer, race,
                 expertResults, counted, report>>
matchVars == <<testedPath, testedPattern, verdict>>

cliVars == <<cliPc, expertsFolder, foundExperts, cliKeys, repo, commands,
             gitDiff, reviewResponse, thrown, exitCode>>

vars == <<revision, requestVars, matchVars, cliVars, ciEnv>>

\* Largest number of rules in one request.
MaxRules == 2

-----------------------------------------------------------------------------
\* JavaScript values

Undefined == [type |-> "undefined"]
Num(n) == [type |-> "number", num |-> n]
Str(s) == [type |-> "string", str |-> <<s>>]
EmptyStr == [type |-> "string", str |-> <<>>]
Obj == [type |-> "object"]
Arr(a) == [type |-> "array", arr |-> a]

\* `!v` is FALSE
Truthy(v) ==
  CASE v.type = "undefined" -> FALSE
    [] v.type = "number" -> v.num # 0
    [] v.type = "string" -> v.str # <<>>
    [] OTHER -> TRUE

IsArray(v) == v.type = "array"
IsString(v) == v.type = "string"

\* `a + b` on two strings
Cat(a, b) == [type |-> "string", str |-> a.str \o b.str]

-----------------------------------------------------------------------------
\* matchesPattern

\* pattern.replace(/\*\*/g, to): leftmost non-overlapping pairs of stars
RECURSIVE ReplaceDoubleStar(_, _)
ReplaceDoubleStar(p, to) ==
  IF p = <<>> THEN <<>>
  ELSE IF Len(p) >= 2 /\ p[1] = "*" /\ p[2] = "*"
       THEN to \o ReplaceDoubleStar(SubSeq(p, 3, Len(p)), to)
       ELSE <<p[1]>> \o ReplaceDoubleStar(Tail(p), to)

\* s.replace(/c/g, to) for a one-character c
RECURSIVE ReplaceChar(_, _, _)
ReplaceChar(p, c, to) ==
  IF p = <<>> THEN <<>>
  ELSE (IF p[1] = c THEN to ELSE <<p[1]>>) \o ReplaceChar(Tail(p), c, to)

\* the regular-expression source built by the "expert" revision
RegexSourceExpert(pattern) ==
  ReplaceChar(ReplaceChar(ReplaceDoubleStar(pattern, <<".", "*">>),
                          "*", <<"[^/]*">>),
              "?", <<".">>)

\* the regular-expression source built by the "threadline" revision
RegexSourceThreadline(pattern) ==
  ReplaceChar(ReplaceChar(ReplaceChar(ReplaceDoubleStar(pattern, <<"__DOUBLE_STAR__">>),
                                      "*", <<"[^/]*">>),
                          "__DOUBLE_STAR__", <<".", "*">>),
              "?", <<".">>)

RegexSource(rev, pattern) ==
  IF rev = "expert" THEN RegexSourceExpert(pattern)
                    ELSE RegexSourceThreadline(pattern)

\* new RegExp(...) throws a SyntaxError: an unterminated group
RegexThrows(re) == \E i \in DOMAIN re : re[i] = "("

\* ^re$ tested on s: re from position i against s from position j.  The atom
\* "[^/]*" is a run of non-slash characters, "." followed by "*" any run,
\* "." any one character, every other atom itself.
RECURSIVE RegexTest(_, _, _, _)
RegexTest(re, i, s, j) ==
  IF i > Len(re) THEN j > Len(s)
  ELSE IF re[i] = "[^/]*"
       THEN \E k \in j..(Len(s) + 1) :
              /\ \A m \in j..(k - 1) : s[m] # "/"
              /\ RegexTest(re, i + 1, s, k)
  ELSE IF re[i] = "." /\ i < Len(re) /\ re[i + 1] = "*"
       THEN \E k \in j..(Len(s) + 1) : RegexTest(re, i + 2, s, k)
  ELSE IF re[i] = "."
       THEN j <= Len(s) /\ RegexTest(re, i + 1, s, j + 1)
  ELSE j <= Len(s) /\ s[j] = re[i] /\ RegexTest(re, i + 1, s, j + 1)

\* "throw" when the pattern does not compile, else the verdict of regex.test
matchesPattern(rev, filePath, pattern) ==
  LET re == RegexSource(rev, pattern)
  IN IF RegexThrows(re) THEN "throw"
     ELSE IF RegexTest(re, 1, filePath, 1) THEN "true" ELSE "false"

\* patterns.some(pattern => matchesPattern(file, pattern)): stops at the first
\* pattern that matches, throws at the first that does not compile
RECURSIVE SomePattern(_, _, _, _)
SomePattern(rev, file, patterns, k) ==
  IF k > Len(patterns) THEN "false"
  ELSE LET m == matchesPattern(rev, file, patterns[k])
       IN IF m = "false" THEN SomePattern(rev, file, patterns, k + 1) ELSE m

\* files.filter(file => patterns.some(...)), when nothing throws
RECURSIVE FilterFiles(_, _, _)
FilterFiles(rev, files, patterns) ==
  IF files = <<>> THEN <<>>
  ELSE (IF SomePattern(rev, files[1], patterns, 1) = "true"
        THEN <<files[1]>> ELSE <<>>)
       \o FilterFiles(rev, Tail(files), patterns)

FilterThrows(rev, files, patterns) ==
  \E f \in DOMAIN files : SomePattern(rev, files[f], patterns, 1) = "throw"

-----------------------------------------------------------------------------
\* Requests

F_a_ts == <<"a", ".", "t", "s">>
F_src_a_ts == <<"s", "r", "c", "/", "a", ".", "t", "s">>

P_dstar_ts == <<"*", "*", "/", "*", ".", "t", "s">>
P_star_sql == <<"*", ".", "s", "q", "l">>
P_a_ts == <<"a", ".", "t", "s">>
P_paren == <<"(">>

\* the rules a request is made of; two of them share an id
RuleSet ==
  { [id |-> "r1", patterns |-> <<P_dstar_ts>>],
    [id |-> "r2", patterns |-> <<P_star_sql, P_a_ts>>],
    [id |-> "r2", patterns |-> <<P_paren>>] }

FileLists == { <<>>, <<F_a_ts>>, <<F_src_a_ts, F_a_ts>> }

RuleLists == UNION { [1..n -> RuleSet] : n \in 0..MaxRules }

\* what a request body can hold in each field
RulesFields == {Undefined, Obj} \cup { Arr(l) : l \in RuleLists }
DiffFields == {Undefined, Num(0), Num(42), EmptyStr, Str("diff --git")}
FilesFields == {Undefined, Obj} \cup { Arr(l) : l \in FileLists }
KeyFields == {Undefined, Num(42), Str("sk-key")}
EnvKeys == {Undefined, Str("sk-key")}

-----------------------------------------------------------------------------
\* The completion backend

TimedOutTexts == {"Request timed out after 40s", "connect timed out",
                  "the tests timed out before"}

\* what one call of openai.chat.completions.create can end in: an exception,
\* an answer without content, content that is no JSON, or a JSON object
Answer(status, reasoning, refs) ==
  [kind |-> "json", status |-> status, reasoning |-> reasoning,
   line_references |-> refs]

BackendOutcomes ==
  { [kind |-> "throw", message |-> Str("fetch failed")],
    [kind |-> "throw", message |-> Str("connect timed out")],
    [kind |-> "empty"],
    [kind |-> "badjson"],
    Answer(Str("compliant"), Str("follows the rule"), Undefined),
    Answer(Str("attention"), Str("breaks the rule"), Arr(<<12>>)),
    Answer(Str("not_relevant"), Str("nothing to check"), Undefined),
    Answer(Undefined, Undefined, Undefined),
    Answer(EmptyStr, Str("follows the rule"), Undefined),
    Answer(Num(0), Undefined, Undefined),
    Answer(Str("banana"), Str("follows the rule"), Undefined),
    Answer(Num(42), Str("follows the rule"), Undefined),
    Answer(Str("compliant"), Str("the tests timed out before"), Undefined),
    Answer(Str("compliant"), Num(7), Undefined) }

-----------------------------------------------------------------------------
\* processExpert / processThreadline

Fulfilled(v) == [state |-> "fulfilled", value |-> v]
Rejected(m) == [state |-> "rejected", message |-> m]
Pending == [state |-> "pending"]

Result(id, status, reasoning) ==
  [expertId |-> id, status |-> status, reasoning |-> reasoning]

\* patterns.join(', ')
RECURSIVE Join(_)
Join(patterns) ==
  IF patterns = <<>> THEN <<>>
  ELSE IF Len(patterns) = 1 THEN patterns[1]
  ELSE patterns[1] \o <<", ">> \o Join(Tail(patterns))

\* the result returned when no file matches
NoMatchResult(rev, expert) ==
  IF rev = "expert"
  THEN Result(expert.id, Str("not_relevant"), Str("No files match expert patterns"))
  ELSE Result(expert.id, Str("not_relevant"),
              [type |-> "string",
               str |-> <<"No files match threadline patterns: ">>
                       \o Join(expert.patterns)])

\* the statements from the backend call to the return: the message of the
\* exception thrown, or the result returned
AfterCall(expert, diff, outcome) ==
  CASE outcome.kind = "throw" ->
         [threw |-> TRUE, message |-> outcome.message]
    [] outcome.kind = "empty" ->
         [threw |-> TRUE, message |-> Str("No response from LLM")]
    [] outcome.kind = "badjson" ->
         [threw |-> TRUE, message |-> Str("Unexpected token in JSON")]
    [] OTHER ->
         IF /\ Truthy(outcome.line_references)
            /\ IsArray(outcome.line_references)
            /\ ~IsString(diff) /\ ~IsArray(diff)
         THEN [threw |-> TRUE, message |-> Str("diff.includes is not a function")]
         ELSE [threw |-> FALSE,
               value |-> Result(expert.id,
                                IF Truthy(outcome.status) THEN outcome.status
                                                          ELSE Str("not_relevant"),
                                outcome.reasoning)]

\* how the promise of processExpert settles once the backend call has ended:
\* the catch block turns every exception into a result
processExpert(expert, diff, outcome) ==
  LET r == AfterCall(expert, diff, outcome)
  IN IF r.threw
     THEN Fulfilled(Result(expert.id, Str("not_relevant"),
                           Cat(Str("Error processing expert: "), r.message)))
     ELSE Fulfilled(r.value)

\* how the promise of processThreadline settles: no catch block
processThreadline(threadline, diff, outcome) ==
  LET r == AfterCall(threadline, diff, outcome)
  IN IF r.threw THEN Rejected(r.message) ELSE Fulfilled(r.value)

Worker(rev, expert, diff, outcome) ==
  IF rev = "expert" THEN processExpert(expert, diff, outcome)
                    ELSE processThreadline(expert, diff, outcome)

\* mutation of WorkerStart: no short-circuit for a rule that matches no file
WorkerStart_NoShortCircuit(rev, expert, files) ==
  IF FilterThrows(rev, files, expert.patterns)
  THEN Rejected(Str("Invalid regular expression"))
  ELSE Pending

\* the synchronous start of a worker: rejected when a pattern does not
\* compile, fulfilled when no file matches, else pending on the backend call
WorkerStart(rev, expert, files) ==
  IF FilterThrows(rev, files, expert.patterns)
  THEN Rejected(Str("Invalid regular expression"))
  ELSE IF Len(FilterFiles(rev, files, expert.patterns)) = 0
       THEN Fulfilled(NoMatchResult(rev, expert))
       ELSE Pending

\* mutation of TimeoutResult: a reasoning without the words the loop looks for
TimeoutResult_NoMarker(expert) ==
  Result(expert.id, Str("not_relevant"), Str("Request exceeded 40s"))

\* the value the timer of a rule resolves its promise with
TimeoutResult(expert) ==
  Result(expert.id, Str("not_relevant"), Str("Request timed out after 40s"))

-----------------------------------------------------------------------------
\* processExperts: classification and aggregation

\* expertResult.reasoning?.includes('timed out') throws a TypeError when the
\* reasoning is neither undefined nor a string
IncludesThrows(reasoning) == reasoning.type \notin {"undefined", "string"}

IncludesTimedOut(reasoning) ==
  /\ reasoning.type = "string"
  /\ \E k \in DOMAIN reasoning.str : reasoning.str[k] \in TimedOutTexts

\* mutation of Classify: a rejected promise increments no counter
Classify_DropsRejected(settled) ==
  IF settled.state = "fulfilled"
  THEN IF IncludesTimedOut(settled.value.reasoning) THEN "timedOut"
                                                    ELSE "completed"
  ELSE "none"

\* the counter the loop increments for one settled promise
Classify(settled) ==
  IF settled.state = "fulfilled"
  THEN IF IncludesTimedOut(settled.value.reasoning) THEN "timedOut"
                                                    ELSE "completed"
  ELSE "errors"

\* the per-rule result the loop pushes for one settled promise
Pushed(expert, settled) ==
  IF settled.state = "fulfilled"
  THEN settled.value
  ELSE Result(expert.id, Str("not_relevant"),
              Cat(Str("Error: "),
                  IF Truthy(settled.message) THEN settled.message
                                             ELSE Str("Unknown error")))

\* mutation of Loop: the results are collected last first
RECURSIVE Loop_Unshift(_, _, _)
Loop_Unshift(exps, settled, k) ==
  IF k = 0
  THEN [expertResults |-> <<>>, counted |-> <<>>,
        completed |-> 0, timedOut |-> 0, errors |-> 0]
  ELSE LET before == Loop_Unshift(exps, settled, k - 1)
           c == Classify(settled[k])
       IN [expertResults |-> <<Pushed(exps[k], settled[k])>> \o before.expertResults,
           counted |-> <<c>> \o before.counted,
           completed |-> before.completed + (IF c = "completed" THEN 1 ELSE 0),
           timedOut |-> before.timedOut + (IF c = "timedOut" THEN 1 ELSE 0),
           errors |-> before.errors + (IF c = "errors" THEN 1 ELSE 0)]

\* the loop over results[0..n-1], run up to index k
RECURSIVE Loop(_, _, _)
Loop(exps, settled, k) ==
  IF k = 0
  THEN [expertResults |-> <<>>, counted |-> <<>>,
        completed |-> 0, timedOut |-> 0, errors |-> 0]
  ELSE LET before == Loop(exps, settled, k - 1)
           c == Classify(settled[k])
       IN [expertResults |-> Append(before.expertResults, Pushed(exps[k], settled[k])),
           counted |-> Append(before.counted, c),
           completed |-> before.completed + (IF c = "completed" THEN 1 ELSE 0),
           timedOut |-> before.timedOut + (IF c = "timedOut" THEN 1 ELSE 0),
           errors |-> before.errors + (IF c = "errors" THEN 1 ELSE 0)]

LoopThrows(settled) ==
  \E i \in DOMAIN settled :
    settled[i].state = "fulfilled" /\ IncludesThrows(settled[i].value.reasoning)

\* mutation of IsRelevant: nothing is filtered out
IsRelevant_KeepsAll(r) == TRUE

\* expertResults.filter(r => r.status !== 'not_relevant')
IsRelevant(r) == r.status # Str("not_relevant")

\* mutation of BuildReport: completed counts the results left by the filter
BuildReport_CountsVisible(exps, loop) ==
  [results |-> SelectSeq(loop.expertResults, IsRelevant),
   metadata |-> [totalExperts |-> Len(exps),
                 completed |-> Len(SelectSeq(loop.expertResults, IsRelevant)),
                 timedOut |-> loop.timedOut,
                 errors |-> loop.errors]]

\* the value processExperts returns
BuildReport(exps, loop) ==
  [results |-> SelectSeq(loop.expertResults, IsRelevant),
   metadata |-> [totalExperts |-> Len(exps),
                 completed |-> loop.completed,
                 timedOut |-> loop.timedOut,
                 errors |-> loop.errors]]

-----------------------------------------------------------------------------
\* threadlineCheckRoute: validation

NoResponse == [status |-> 0]
ErrorResponse(code, text) == [status |-> code, error |-> text]
NoReport == [none |-> TRUE]

RulesInvalid(b) ==
  \/ ~Truthy(b.rules)
  \/ ~IsArray(b.rules)
  \/ Len(b.rules.arr) = 0

DiffInvalid(b) == ~Truthy(b.diff) /\ ~IsString(b.diff)

FilesInvalid(b) == ~Truthy(b.files) \/ ~IsArray(b.files)

\* mutation of KeyInvalid: the api key is not checked
KeyInvalid_Skipped(rev, b, env) == FALSE

\* the api key check of the revision
KeyInvalid(rev, b, env) ==
  IF rev = "expert" THEN ~Truthy(b.apiKey) \/ ~IsString(b.apiKey)
                    ELSE ~Truthy(env)

\* the response of the first failing check, NoResponse when all pass
Validate(rev, b, env) ==
  IF RulesInvalid(b)
  THEN ErrorResponse(400, "rules array is required and cannot be empty")
  ELSE IF DiffInvalid(b) THEN ErrorResponse(400, "diff is required")
  ELSE IF FilesInvalid(b) THEN ErrorResponse(400, "files array is required")
  ELSE IF KeyInvalid(rev, b, env)
       THEN IF rev = "expert"
            THEN ErrorResponse(400, "apiKey is required")
            ELSE ErrorResponse(500, "Server configuration error: OPENAI_API_KEY not set")
  ELSE NoResponse

-----------------------------------------------------------------------------
\* State

\* no request is being served
NoRequest ==
  /\ body = Undefined /\ envKey = Undefined
  /\ response = NoResponse /\ pc = "idle"
  /\ experts = <<>> /\ call = <<>> /\ timer = <<>> /\ race = <<>>
  /\ expertResults = <<>> /\ counted = <<>> /\ report = NoReport

\* matchesPattern is not being called on its own
NoMatchCall == testedPath = <<>> /\ testedPattern = <<>> /\ verdict = "none"

NoDiff == [none |-> TRUE]
NoError == [none |-> TRUE]
NoExit == Undefined
NoReview == [kind |-> "none"]

\* no variable of GitHub Actions is set
NoEnv ==
  [eventName |-> Undefined, baseRef |-> Undefined, headRef |-> Undefined,
   refName |-> Undefined, commitSha |-> Undefined]

\* checkCommand is not running
NoCommand ==
  /\ cliPc = "idle"
  /\ expertsFolder = Undefined /\ foundExperts = <<>>
  /\ cliKeys = Undefined /\ repo = Undefined
  /\ commands = <<>> /\ gitDiff = NoDiff
  /\ reviewResponse = NoReview /\ thrown = NoError /\ exitCode = NoExit

Init ==
  /\ revision \in {"expert", "threadline"}
  /\ body \in [rules : RulesFields, diff : DiffFields, files : FilesFields,
               apiKey : KeyFields]
  /\ envKey \in EnvKeys
  \* the requests explored: several rules come with the usual diff text, the
  \* other kinds of diff field with at most one rule
  /\ (IsArray(body.rules) /\ Len(body.rules.arr) > 1) => body.diff = Str("diff --git")
  /\ revision = "expert" => envKey = Undefined
  /\ revision = "threadline" => body.apiKey = Undefined
  /\ response = NoResponse
  /\ pc = "received"
  /\ experts = <<>>
  /\ call = <<>>
  /\ timer = <<>>
  /\ race = <<>>
  /\ expertResults = <<>>
  /\ counted = <<>>
  /\ report = NoReport
  /\ NoMatchCall
  /\ NoCommand
  /\ ciEnv = NoEnv

\* the route answers a request that fails validation
RouteReject ==
  /\ pc = "received"
  /\ Validate(revision, body, envKey) # NoResponse
  /\ response' = Validate(revision, body, envKey)
  /\ pc' = "answered"
  /\ UNCHANGED <<revision, body, envKey, experts, call, timer, race,
                 expertResults, counted, report>>
  /\ UNCHANGED <<matchVars, cliVars, ciEnv>>

\* Promise.allSettled resolves as soon as the last promise has settled, before
\* any further timer or backend callback runs: the loop runs, and either
\* processExperts returns and the route sends the report, or the loop throws,
\* processExperts rejects and the catch block of the route answers 500
Resume(exps, settled) ==
  IF \E i \in DOMAIN settled : settled[i] = Pending
  THEN /\ pc' = "waiting"
       /\ UNCHANGED <<response, expertResults, counted, report>>
  ELSE IF LoopThrows(settled)
  THEN /\ pc' = "rejected"
       /\ response' = ErrorResponse(500, "expertResult.reasoning?.includes is not a function")
       /\ UNCHANGED <<expertResults, counted, report>>
  ELSE LET loop == Loop(exps, settled, Len(settled))
       IN /\ pc' = "returned"
          /\ expertResults' = loop.expertResults
          /\ counted' = loop.counted
          /\ report' = BuildReport(exps, loop)
          /\ response' = [status |-> 200, json |-> BuildReport(exps, loop)]

\* the route calls processExperts, which starts one worker and one timer per
\* rule and awaits Promise.allSettled
RouteDispatch ==
  /\ pc = "received"
  /\ Validate(revision, body, envKey) = NoResponse
  /\ LET exps == body.rules.arr
         started == [i \in DOMAIN exps |->
                       WorkerStart(revision, exps[i], body.files.arr)]
     IN /\ experts' = exps
        /\ race' = started
        /\ call' = [i \in DOMAIN exps |->
                      IF started[i] = Pending THEN "pending" ELSE "none"]
        /\ timer' = [i \in DOMAIN exps |-> "set"]
        /\ Resume(exps, started)
  /\ UNCHANGED <<revision, body, envKey>>
  /\ UNCHANGED <<matchVars, cliVars, ciEnv>>

\* a race whose promise could be settled a second time: the late completion of
\* the backend call replaces the outcome the timer has fixed
BackendSettles_Overrides(i, outcome) ==
  /\ pc \in {"waiting", "returned", "rejected"}
  /\ call[i] = "pending"
  /\ call' = [call EXCEPT ![i] = "done"]
  /\ LET settled == [race EXCEPT ![i] =
                       Worker(revision, experts[i], body.diff, outcome)]
     IN race' = settled /\ Resume(experts, settled)
  /\ UNCHANGED <<revision, body, envKey, experts, timer>>
  /\ UNCHANGED <<matchVars, cliVars, ciEnv>>

\* the backend call of rule i ends; the worker settles, and the race with it
\* unless the timer has settled it before
BackendSettles(i, outcome) ==
  /\ pc \in {"waiting", "returned", "rejected"}
  /\ call[i] = "pending"
  /\ call' = [call EXCEPT ![i] = "done"]
  /\ IF race[i] = Pending
     THEN LET settled == [race EXCEPT ![i] =
                            Worker(revision, experts[i], body.diff, outcome)]
          IN race' = settled /\ Resume(experts, settled)
     ELSE UNCHANGED <<race, pc, response, expertResults, counted, report>>
  /\ UNCHANGED <<revision, body, envKey, experts, timer>>
  /\ UNCHANGED <<matchVars, cliVars, ciEnv>>

\* the timer of rule i fires after EXPERT_TIMEOUT; it is never cleared.  The
\* timers are set in rule order with the same delay, so they fire in rule order
TimerFires(i) ==
  /\ pc \in {"waiting", "returned", "rejected"}
  /\ timer[i] = "set"
  /\ \A j \in 1..(i - 1) : timer[j] = "fired"
  /\ timer' = [timer EXCEPT ![i] = "fired"]
  /\ IF race[i] = Pending
     THEN LET settled == [race EXCEPT ![i] = Fulfilled(TimeoutResult(experts[i]))]
          IN race' = settled /\ Resume(experts, settled)
     ELSE UNCHANGED <<race, pc, response, expertResults, counted, report>>
  /\ UNCHANGED <<revision, body, envKey, experts, call>>
  /\ UNCHANGED <<matchVars, cliVars, ciEnv>>

Next ==
  \/ RouteReject
  \/ RouteDispatch
  \/ \E i \in DOMAIN call : \E outcome \in BackendOutcomes : BackendSettles(i, outcome)
  \/ \E i \in DOMAIN timer : TimerFires(i)

Spec == Init /\ [][Next]_vars

-----------------------------------------------------------------------------
\* matchesPattern called on its own, on the paths of a small tree

\* Largest number of directories above a file.
MaxDepth == 2

RECURSIVE JoinPath(_)
JoinPath(segments) ==
  IF Len(segments) = 1 THEN segments[1]
  ELSE segments[1] \o <<"/">> \o JoinPath(Tail(segments))

DirNames == { <<"s", "r", "c">>, <<"a">>, <<"b">> }
FileNames == { <<"a", ".", "t", "s">>, <<"b", ".", "t", "s">>,
               <<"a", "x", "t", "s">>, <<"t", "s">>, <<".", "t", "s">>,
               <<"a", ".", "s", "q", "l">> }

F_x_api_y_z_ts == <<"x", "/", "a", "p", "i", "/", "y", "/", "z", ".", "t", "s">>
F_schema_sql == <<"s", "c", "h", "e", "m", "a", ".", "s", "q", "l">>
F_schemaxsql == <<"s", "c", "h", "e", "m", "a", "x", "s", "q", "l">>
F_db_schema_sql == <<"d", "b", "/">> \o F_schema_sql

Paths ==
  { JoinPath(dirs \o <<name>>) :
      dirs \in UNION { [1..k -> DirNames] : k \in 0..MaxDepth },
      name \in FileNames }
  \cup { F_x_api_y_z_ts, F_schema_sql, F_schemaxsql, F_db_schema_sql }

F_src_a_b_ts == <<"s", "r", "c", "/", "a", "/", "b", ".", "t", "s">>
F_src_b_a_ts == <<"s", "r", "c", "/", "b", "/", "a", ".", "t", "s">>

P_src_star_ts == <<"s", "r", "c", "/", "*", ".", "t", "s">>
P_src_dstar == <<"s", "r", "c", "/", "*", "*">>
P_q_ts == <<"?", ".", "t", "s">>

P_dstar_api_dstar == <<"*", "*", "/", "a", "p", "i", "/", "*", "*">>
P_schema_sql == F_schema_sql

Patterns ==
  { P_dstar_ts, P_src_star_ts, P_src_dstar, P_q_ts, P_star_sql, P_a_ts, P_paren,
    P_dstar_api_dstar, P_schema_sql }

MatchInit ==
  /\ revision \in {"expert", "threadline"}
  /\ testedPath \in Paths
  /\ testedPattern \in Patterns
  /\ verdict = "none"
  /\ NoRequest
  /\ NoCommand
  /\ ciEnv = NoEnv

\* matchesPattern(filePath, pattern) is evaluated
TestPath ==
  /\ verdict = "none"
  /\ verdict' = matchesPattern(revision, testedPath, testedPattern)
  /\ UNCHANGED <<revision, testedPath, testedPattern, requestVars, cliVars, ciEnv>>

MatchNext == TestPath

MatchSpec == MatchInit /\ [][MatchNext]_vars

-----------------------------------------------------------------------------
\* The command-line client: findExperts, getGitDiff and checkCommand

\* a file of the /experts folder: whether its text has the frontmatter
\* ("ok"), has none ("missing") or has one yaml.load rejects ("unparsable"),
\* the fields of the frontmatter, whether its context files exist, its body
ExpertFile(name, frontmatter, id, version, patterns, context, text) ==
  [name |-> name, frontmatter |-> frontmatter, id |-> id, version |-> version,
   patterns |-> patterns, contextFilesExist |-> context, body |-> text]

\* two definitions with the same id, a third one, and files that do not
\* validate; notes.txt is no .md file
ExpertFiles ==
  << ExpertFile("a.md", "ok", Str("e1"), Str("1.0.0"), Arr(<<P_dstar_ts>>),
                TRUE, Str("Use feature flags")),
     ExpertFile("b.md", "ok", Str("e1"), Str("2.1.0-beta"), Arr(<<P_star_sql>>),
                TRUE, Str("Use TIMESTAMPTZ")),
     ExpertFile("c.md", "ok", Str("e2"), Str("1.0.0"), Arr(<<P_a_ts>>),
                TRUE, EmptyStr),
     ExpertFile("d.md", "missing", Undefined, Undefined, Undefined,
                TRUE, Str("No frontmatter")),
     ExpertFile("e.md", "ok", Undefined, Str("latest"), Arr(<<>>),
                FALSE, Str("Many mistakes")),
     ExpertFile("notes.txt", "unparsable", Undefined, Undefined, Undefined,
                TRUE, EmptyStr) >>

\* the /experts folder: missing, or some of the files
ExpertsFolders ==
  { [exists |-> FALSE, files |-> <<>>] } \cup
  { [exists |-> TRUE,
     files |-> SelectSeq(ExpertFiles, LAMBDA f : f.name \in chosen)] :
      chosen \in SUBSET { ExpertFiles[i].name : i \in DOMAIN ExpertFiles } }

\* /^\d+\.\d+\.\d+/.test(version)
SemverLike(version) == version \in {Str("1.0.0"), Str("2.1.0-beta")}

\* the errors validateExpert collects once the frontmatter is parsed
ValidationErrors(file) ==
  (IF ~Truthy(file.id) THEN <<"Missing required field: id">> ELSE <<>>)
  \o (IF ~Truthy(file.version) THEN <<"Missing required field: version">> ELSE <<>>)
  \o (IF ~Truthy(file.patterns) THEN <<"Missing required field: patterns">> ELSE <<>>)
  \o (IF Truthy(file.patterns) /\ ~IsArray(file.patterns)
      THEN <<"patterns must be an array">> ELSE <<>>)
  \o (IF IsArray(file.patterns) /\ file.patterns.arr = <<>>
      THEN <<"patterns array cannot be empty">> ELSE <<>>)
  \o (IF ~file.contextFilesExist THEN <<"Context file not found">> ELSE <<>>)
  \o (IF file.body = EmptyStr THEN <<"Expert body cannot be empty">> ELSE <<>>)
  \o (IF Truthy(file.version) /\ ~SemverLike(file.version)
      THEN <<"version must be in semver format">> ELSE <<>>)

\* validateExpert: the expert of a file, or the errors of the file
validateExpert(file) ==
  IF file.frontmatter = "missing"
  THEN [valid |-> FALSE, errors |-> <<"Missing YAML frontmatter">>]
  ELSE IF file.frontmatter = "unparsable"
  THEN [valid |-> FALSE, errors |-> <<"Failed to parse expert file">>]
  ELSE IF ValidationErrors(file) # <<>>
  THEN [valid |-> FALSE, errors |-> ValidationErrors(file)]
  ELSE [valid |-> TRUE,
        expert |-> [id |-> file.id, version |-> file.version,
                    patterns |-> file.patterns.arr, filePath |-> file.name]]

\* the loop of findExperts: the experts of the files that validate, in order
RECURSIVE ValidExperts(_)
ValidExperts(files) ==
  IF files = <<>> THEN <<>>
  ELSE (IF validateExpert(Head(files)).valid
        THEN <<validateExpert(Head(files)).expert>> ELSE <<>>)
       \o ValidExperts(Tail(files))

\* f.endsWith('.md')
IsMarkdown(file) == file.name # "notes.txt"

\* findExperts: throws without folder or without .md file, else returns the
\* experts that validate
findExperts(folder) ==
  LET expertFiles == SelectSeq(folder.files, IsMarkdown)
  IN IF ~folder.exists
     THEN [kind |-> "throw", message |-> "No /experts folder found"]
     ELSE IF expertFiles = <<>>
     THEN [kind |-> "throw", message |-> "No expert files found in /experts folder"]
     ELSE [kind |-> "return", value |-> ValidExperts(expertFiles)]

\* the entries of git status: path, index flag and working-tree flag
StatusEntries ==
  << [path |-> "a.ts", index |-> "M", working_dir |-> " "],
     [path |-> "b.ts", index |-> " ", working_dir |-> "M"],
     [path |-> "c.ts", index |-> "?", working_dir |-> "?"] >>

RECURSIVE Pick(_, _)
Pick(entries, chosen) ==
  IF entries = <<>> THEN <<>>
  ELSE (IF Head(entries).path \in chosen THEN <<Head(entries)>> ELSE <<>>)
       \o Pick(Tail(entries), chosen)

\* the working copies checkCommand runs in; fault is the git command that fails
Repos ==
  { [isRepo |-> FALSE, files |-> <<>>, fault |-> "none"] } \cup
  { [isRepo |-> TRUE, files |-> Pick(StatusEntries, chosen), fault |-> fault] :
      chosen \in SUBSET {"a.ts", "b.ts", "c.ts"},
      fault \in {"none", "checkIsRepo", "status", "diff"} }

\* status.staged: the paths with a change in the index
Staged(files) ==
  SelectSeq(files, LAMBDA f : f.index \notin {" ", "?"})

\* the text of `git diff --cached` and of `git diff`: the paths they show
CachedDiff(files) == [e \in DOMAIN Staged(files) |-> Staged(files)[e].path]
WorkingDiff(files) ==
  LET shown == SelectSeq(files, LAMBDA f : f.working_dir \notin {" ", "?"})
  IN [e \in DOMAIN shown |-> shown[e].path]

GitThrows(run) ==
  [kind |-> "throw", message |-> "git failed", commands |-> run]

\* the file list getGitDiff returns
ChangedFiles(files) ==
  LET kept == SelectSeq(files, LAMBDA f : f.working_dir # " " \/ f.index # " ")
  IN [e \in DOMAIN kept |-> kept[e].path]

\* mutation of DiffCommand: the working tree is looked at before the index
DiffCommand_WorkingFirst(files) ==
  IF files # <<>> THEN "diff"
  ELSE IF Staged(files) # <<>> THEN "diff --cached"
  ELSE "none"

\* the diff getGitDiff asks for: staged changes, else unstaged ones, else none
DiffCommand(files) ==
  IF Staged(files) # <<>> THEN "diff --cached"
  ELSE IF files # <<>> THEN "diff"
  ELSE "none"

\* getGitDiff: the git commands it runs and what it returns or throws
getGitDiff(r) ==
  LET checked == <<"checkIsRepo">>
      status == checked \o <<"status">>
      diffed == status \o <<DiffCommand(r.files)>>
  IN IF r.fault = "checkIsRepo" THEN GitThrows(checked)
     ELSE IF ~r.isRepo
     THEN [kind |-> "throw", message |-> "Not a git repository",
           commands |-> checked]
     ELSE IF r.fault = "status" THEN GitThrows(status)
     ELSE IF DiffCommand(r.files) = "none"
     THEN [kind |-> "return", commands |-> status,
           value |-> [diff |-> <<>>, changedFiles |-> <<>>]]
     ELSE IF r.fault = "diff" THEN GitThrows(diffed)
     ELSE [kind |-> "return", commands |-> diffed,
           value |-> [diff |-> IF DiffCommand(r.files) = "diff --cached"
                               THEN CachedDiff(r.files)
                               ELSE WorkingDiff(r.files),
                      changedFiles |-> ChangedFiles(r.files)]]

\* what client.review can give: an exception, a body that is no report, or a
\* report with the statuses of its results and its metadata
ReviewOutcomes ==
  { [kind |-> "throw", message |-> "Request failed"],
    [kind |-> "malformed"] } \cup
  { [kind |-> "report", results |-> l,
     metadata |-> [totalExperts |-> MaxRules, timedOut |-> t, errors |-> e]] :
      l \in UNION { [1..n -> {"compliant", "attention", "not_relevant"}] :
                    n \in 0..MaxRules },
      t \in 0..1, e \in 0..1 }

\* displayResults reads response.metadata.totalExperts and response.results
displayResultsThrows(resp) == resp.kind # "report"

\* mutation of hasAttention: a failed rule counts as a finding
hasAttention_OrErrors(resp) ==
  \/ \E i \in DOMAIN resp.results : resp.results[i] = "attention"
  \/ resp.metadata.errors > 0

\* response.results.some(r => r.status === 'attention')
hasAttention(resp) ==
  \E i \in DOMAIN resp.results : resp.results[i] = "attention"

CliInit ==
  /\ revision = "threadline"
  /\ NoRequest
  /\ NoMatchCall
  /\ ciEnv = NoEnv
  /\ cliPc = "start"
  /\ expertsFolder \in ExpertsFolders
  /\ cliKeys \in [option : {Undefined, Str("sk-key")},
                  env : {Undefined, EmptyStr, Str("sk-key")}]
  /\ repo \in Repos
  /\ foundExperts = <<>>
  /\ commands = <<>>
  /\ gitDiff = NoDiff
  /\ reviewResponse = NoReview
  /\ thrown = NoError
  /\ exitCode = NoExit

\* process.exit(code)
Exit(code) == cliPc' = "exited" /\ exitCode' = Num(code)

\* the catch block of checkCommand
Catch(message) ==
  /\ thrown' = [message |-> message]
  /\ Exit(1)

\* step 1 of checkCommand: findExperts
FindExperts ==
  /\ cliPc = "start"
  /\ LET found == findExperts(expertsFolder)
     IN IF found.kind = "throw"
        THEN Catch(found.message) /\ UNCHANGED foundExperts
        ELSE /\ foundExperts' = found.value
             /\ UNCHANGED thrown
             /\ IF found.value = <<>>
                THEN Exit(0)
                ELSE cliPc' = "found" /\ UNCHANGED exitCode
  /\ UNCHANGED <<expertsFolder, cliKeys, repo, commands, gitDiff, reviewResponse>>
  /\ UNCHANGED <<revision, requestVars, matchVars, ciEnv>>

\* step 2 of checkCommand: getGitDiff
CollectChanges ==
  /\ cliPc = "found"
  /\ LET got == getGitDiff(repo)
     IN /\ commands' = got.commands
        /\ IF got.kind = "throw"
           THEN Catch(got.message) /\ UNCHANGED gitDiff
           ELSE /\ gitDiff' = got.value
                /\ UNCHANGED thrown
                /\ IF got.value.changedFiles = <<>>
                   THEN Exit(0)
                   ELSE cliPc' = "collected" /\ UNCHANGED exitCode
  /\ UNCHANGED <<expertsFolder, foundExperts, cliKeys, repo, reviewResponse>>
  /\ UNCHANGED <<revision, requestVars, matchVars, ciEnv>>

\* steps 4 to 6 of checkCommand: the api key, client.review, displayResults
\* and the exit code
Review(outcome) ==
  /\ cliPc = "collected"
  /\ LET apiKey == IF Truthy(cliKeys.option) THEN cliKeys.option ELSE cliKeys.env
     IN IF ~Truthy(apiKey)
        THEN Catch("OpenAI API key required") /\ UNCHANGED reviewResponse
        ELSE IF outcome.kind = "throw"
        THEN Catch(outcome.message) /\ UNCHANGED reviewResponse
        ELSE /\ reviewResponse' = outcome
             /\ IF displayResultsThrows(outcome)
                THEN Catch("Cannot read properties of undefined")
                ELSE /\ Exit(IF hasAttention(outcome) THEN 1 ELSE 0)
                     /\ UNCHANGED thrown
  /\ UNCHANGED <<expertsFolder, foundExperts, cliKeys, repo, commands, gitDiff>>
  /\ UNCHANGED <<revision, requestVars, matchVars, ciEnv>>

CliNext ==
  \/ FindExperts
  \/ CollectChanges
  \/ \E outcome \in ReviewOutcomes : Review(outcome)

CliSpec == CliInit /\ [][CliNext]_vars

-----------------------------------------------------------------------------
\* getGitHubDiff: the diff of a run on GitHub Actions

\* Largest number of parents of the tip commit.
MaxParents == 2

CiEnvs ==
  [eventName : {Undefined, Str("push"), Str("pull_request")},
   baseRef : {Undefined, EmptyStr, Str("main")},
   headRef : {Undefined, Str("feature")},
   refName : {Undefined, Str("main"), Str("feature")},
   commitSha : {Undefined, Str("abc123")}]

\* the checkouts getGitHubDiff runs in: the parents of the tip commit and the
\* git command that fails (mergeDiff, mergeSummary: on origin/main~1 only;
\* all: every command after checkIsRepo)
CiRepos ==
  { [isRepo |-> FALSE, parents |-> <<>>, fault |-> "none"] } \cup
  { [isRepo |-> TRUE, parents |-> [i \in 1..n |-> "parent"], fault |-> fault] :
      n \in 0..MaxParents,
      fault \in {"none", "checkIsRepo", "log", "diff", "diffSummary",
                 "mergeDiff", "mergeSummary", "all"} }

\* `origin/${from}...origin/${to}`
Range(from, to) == <<"origin/">> \o from \o <<"...", "origin/">> \o to

MergeRange == Range(<<"main~1">>, <<"main">>)

\* what git.diff and git.diffSummary give for a range
DiffText(range) == [text |-> range]
SummaryFiles(range) == [files |-> range]

\* git.diff([range, '-U200']) then git.diffSummary([range]), after the
\* commands in run
Compare(r, range, run) ==
  LET diffed == run \o << <<"diff">> \o range \o <<"-U200">> >>
      summed == diffed \o << <<"diffSummary">> \o range >>
  IN IF r.fault \in {"diff", "all"} \/ (r.fault = "mergeDiff" /\ range = MergeRange)
     THEN GitThrows(diffed)
     ELSE IF r.fault = "diffSummary" \/ (r.fault = "mergeSummary" /\ range = MergeRange)
     THEN GitThrows(summed)
     ELSE [kind |-> "return", commands |-> summed,
           value |-> [diff |-> DiffText(range),
                      changedFiles |-> SummaryFiles(range)]]

\* mutation of PullRequestRange: base and head swapped
PullRequestRange_Swapped(e) == Range(e.headRef.str, e.baseRef.str)

PullRequestRange(e) == Range(e.baseRef.str, e.headRef.str)

\* !baseRef || !headRef
RefsMissing(e) == ~Truthy(e.baseRef) \/ ~Truthy(e.headRef)

\* scenario 3: the branch push, and the error when no ref name is known
BranchPush(e, r, run) ==
  IF Truthy(e.refName)
  THEN Compare(r, Range(<<"main">>, e.refName.str), run)
  ELSE [kind |-> "throw", commands |-> run,
        message |-> "GitHub Actions environment detected but no valid context found"]

\* mutation of PullRequest: without the refs the branch logic is used
PullRequest_FallsBack(e, r, run) ==
  IF RefsMissing(e)
  THEN BranchPush(e, r, run)
  ELSE Compare(r, PullRequestRange(e), run)

\* scenario 1: the pull-request context
PullRequest(e, r, run) ==
  IF RefsMissing(e)
  THEN [kind |-> "throw", commands |-> run,
        message |-> "GITHUB_BASE_REF or GITHUB_HEAD_REF is missing"]
  ELSE Compare(r, PullRequestRange(e), run)

\* parentShas.trim() ? parentShas.trim().split(/\s+/).length : 0
ParentCount(parentShas) == IF parentShas = <<>> THEN 0 ELSE Len(parentShas)

\* mutation of MergeCommit: a failing parent lookup is not caught
MergeCommit_LookupThrows(e, r, run) ==
  LET logged == run \o << <<"log", "-1", "--format=%P">> \o e.commitSha.str >>
  IN IF r.fault \in {"log", "all"} THEN GitThrows(logged)
     ELSE IF ParentCount(r.parents) > 1
     THEN LET compared == Compare(r, MergeRange, logged)
          IN IF compared.kind = "throw"
             THEN [kind |-> "caught", commands |-> compared.commands]
             ELSE compared
     ELSE [kind |-> "single", commands |-> logged]

\* scenario 2: the try block around the merge-commit detection; "caught" when
\* it falls through to the branch logic
MergeCommit(e, r, run) ==
  LET logged == run \o << <<"log", "-1", "--format=%P">> \o e.commitSha.str >>
  IN IF r.fault \in {"log", "all"} THEN [kind |-> "caught", commands |-> logged]
     ELSE IF ParentCount(r.parents) > 1
     THEN LET compared == Compare(r, MergeRange, logged)
          IN IF compared.kind = "throw"
             THEN [kind |-> "caught", commands |-> compared.commands]
             ELSE compared
     ELSE [kind |-> "single", commands |-> logged]

getGitHubDiff(e, r) ==
  LET checked == << <<"checkIsRepo">> >>
  IN IF r.fault = "checkIsRepo" THEN GitThrows(checked)
     ELSE IF ~r.isRepo
     THEN [kind |-> "throw", message |-> "Not a git repository",
           commands |-> checked]
     ELSE IF e.eventName = Str("pull_request") THEN PullRequest(e, r, checked)
     ELSE IF e.refName = Str("main") /\ Truthy(e.commitSha)
     THEN LET merged == MergeCommit(e, r, checked)
          IN IF merged.kind \in {"return", "throw"} THEN merged
             ELSE BranchPush(e, r, merged.commands)
     ELSE BranchPush(e, r, checked)

CiInit ==
  /\ revision = "threadline"
  /\ NoRequest
  /\ NoMatchCall
  /\ cliPc = "idle"
  /\ expertsFolder = Undefined /\ foundExperts = <<>> /\ cliKeys = Undefined
  /\ reviewResponse = NoReview /\ exitCode = NoExit
  /\ ciEnv \in CiEnvs
  /\ repo \in CiRepos
  /\ commands = <<>>
  /\ gitDiff = NoDiff
  /\ thrown = NoError

\* one call of getGitHubDiff
ResolveGitHubDiff ==
  /\ commands = <<>>
  /\ LET got == getGitHubDiff(ciEnv, repo)
     IN /\ commands' = got.commands
        /\ IF got.kind = "throw"
           THEN thrown' = [message |-> got.message] /\ UNCHANGED gitDiff
           ELSE gitDiff' = got.value /\ UNCHANGED thrown
  /\ UNCHANGED <<cliPc, expertsFolder, foundExperts, cliKeys, repo,
                 reviewResponse, exitCode, ciEnv>>
  /\ UNCHANGED <<revision, requestVars, matchVars>>

CiNext == ResolveGitHubDiff

CiSpec == CiInit /\ [][CiNext]_vars

-----------------------------------------------------------------------------
\* Vocabulary of the properties

Returned == pc = "returned"
Dispatched == pc \in {"waiting", "returned", "rejected"}
NotRelevant == Str("not_relevant")
Metadata == report.metadata

\* the verdict of matchesPattern on every path and pattern of the requests
MatchTable ==
  [rev \in {"expert", "threadline"} |->
    [file \in {F_a_ts, F_src_a_ts} |->
      [pattern \in {P_dstar_ts, P_star_sql, P_a_ts, P_paren} |->
        matchesPattern(rev, file, pattern)]]]

\* no pattern of rule i matches any file of the request
NoMatch(i) ==
  \A f \in DOMAIN body.files.arr : \A p \in DOMAIN experts[i].patterns :
    MatchTable[revision][body.files.arr[f]][experts[i].patterns[p]] # "true"

\* the timer of rule i fired while its backend call had not completed
TimedOutTask(i) ==
  /\ timer[i] = "fired"
  /\ race[i] = Fulfilled(TimeoutResult(experts[i]))

\* the backend call of rule i ended, before the timer, in an outcome of `kinds`
BackendEnded(i, kinds) ==
  /\ call[i] = "done"
  /\ \E o \in BackendOutcomes :
       o.kind \in kinds /\ race[i] = Worker(revision, experts[i], body.diff, o)

CountOf(class) == Cardinality({i \in DOMAIN counted : counted[i] = class})

\* C1: every returned report has totalExperts equal to the number of rules of
\* the request, and completed + timedOut + errors = totalExperts
C1_MetadataSum ==
  Returned =>
    /\ Metadata.totalExperts = Len(body.rules.arr)
    /\ Metadata.completed + Metadata.timedOut + Metadata.errors
         = Metadata.totalExperts

C1_Witness ==
  /\ Returned
  /\ Len(body.rules.arr) = 2
  /\ Metadata.timedOut = 1
  /\ Metadata.errors = 1

\* C2: before the filter there is exactly one result per rule and the i-th
\* result carries the id of the i-th rule, whatever order the tasks settle in;
\* a settled task holds a result of its own rule
C2_IndexAligned ==
  /\ Dispatched =>
       \A i \in DOMAIN race :
         race[i].state = "fulfilled" => race[i].value.expertId = experts[i].id
  /\ Returned =>
       /\ Len(expertResults) = Len(body.rules.arr)
       /\ \A i \in DOMAIN expertResults :
            expertResults[i].expertId = body.rules.arr[i].id

\* the second rule was answered by the backend, the first one timed out
C2_Witness ==
  /\ Returned
  /\ Len(experts) = 2
  /\ experts[1].id # experts[2].id
  /\ TimedOutTask(1)
  /\ BackendEnded(2, {"json"})
  /\ expertResults[2].status = Str("attention")

\* C3: a rule none of whose patterns matches any file never gets a backend
\* call, and its result is not_relevant
C3_NoMatchShortCircuit ==
  Dispatched =>
    \A i \in DOMAIN experts :
      NoMatch(i) =>
        /\ call[i] = "none"
        /\ Returned => expertResults[i].status = NotRelevant

C3_Witness ==
  /\ Returned
  /\ body.files.arr # <<>>
  /\ \E i, j \in DOMAIN experts :
       /\ NoMatch(i)
       /\ race[i] = Fulfilled(NoMatchResult(revision, experts[i]))
       /\ call[j] = "done"

\* C4: a task whose timer fires before its backend call completes has result
\* not_relevant and is counted once, in timedOut and in no other counter
C4_TimeoutCounted ==
  Returned =>
    /\ \A i \in DOMAIN experts :
         TimedOutTask(i) =>
           /\ expertResults[i].status = NotRelevant
           /\ counted[i] = "timedOut"
    /\ Metadata.timedOut = CountOf("timedOut")
    /\ Metadata.completed = CountOf("completed")
    /\ Metadata.errors = CountOf("errors")

C4_Witness ==
  /\ Returned
  /\ \E i, j \in DOMAIN experts :
       /\ TimedOutTask(i)
       /\ call[i] = "pending"
       /\ BackendEnded(j, {"json"})
       /\ counted[j] = "completed"

\* C5: a backend call of a matching rule that fails with an exception before
\* the timeout is counted in errors, and the result of the rule is
\* not_relevant with the message of the exception in its reasoning
C5_BackendErrorCounted ==
  Returned =>
    \A i \in DOMAIN experts :
      BackendEnded(i, {"throw"}) =>
        /\ counted[i] = "errors"
        /\ expertResults[i].status = NotRelevant
        /\ \E o \in BackendOutcomes :
             /\ o.kind = "throw"
             /\ \E k \in DOMAIN expertResults[i].reasoning.str :
                  <<expertResults[i].reasoning.str[k]>> = o.message.str

\* the results of `s` that are not not_relevant, in order
RECURSIVE Kept(_)
Kept(s) ==
  IF s = <<>> THEN <<>>
  ELSE (IF s[1].status = NotRelevant THEN <<>> ELSE <<s[1]>>) \o Kept(Tail(s))

\* C6: the results of the report are the per-rule results that are not
\* not_relevant, in rule order; the result of a non-matching, timed-out or
\* failed rule is not among them; the counts cover all rules
C6_FilteredResults ==
  Returned =>
    /\ report.results = Kept(expertResults)
    /\ \A i \in DOMAIN experts :
         (\/ NoMatch(i)
          \/ TimedOutTask(i)
          \/ BackendEnded(i, {"throw", "empty", "badjson"})
          \/ race[i].state = "rejected")
         => /\ expertResults[i].status = NotRelevant
            /\ \A k \in DOMAIN report.results :
                 report.results[k] # expertResults[i]
    /\ CountOf("completed") + CountOf("timedOut") + CountOf("errors")
         = Len(experts)
    /\ Metadata.completed + Metadata.timedOut + Metadata.errors = Len(experts)

C6_Witness ==
  /\ Returned
  /\ Len(experts) = 2
  /\ Len(report.results) = 1
  /\ \E i \in DOMAIN experts : TimedOutTask(i)

\* C7: whatever the backend puts in the status field, the status of a per-rule
\* result is compliant, attention or not_relevant, and every entry of the
\* results of the report has status compliant or attention
C7_StatusEnumerated ==
  Returned =>
    /\ \A i \in DOMAIN expertResults :
         expertResults[i].status
           \in {Str("compliant"), Str("attention"), NotRelevant}
    /\ \A k \in DOMAIN report.results :
         report.results[k].status \in {Str("compliant"), Str("attention")}

\* C8: a request ends in a report covering every rule or in one error without
\* results; once dispatched, processExperts never rejects and the route never
\* answers with an error
C8_NoEscalation ==
  /\ response.status # 0 =>
       \/ /\ response.status = 200
          /\ response.json.metadata.totalExperts = Len(body.rules.arr)
       \/ /\ response.status \in {400, 500}
          /\ DOMAIN response = {"status", "error"}
  /\ Dispatched => pc # "rejected" /\ response.status \in {0, 200}

\* C9: once every timer has fired processExperts has returned a report,
\* whether or not the backend calls have completed
C9_ReturnsByTimeout ==
  (Dispatched /\ \A i \in DOMAIN timer : timer[i] = "fired") => Returned

\* C10: the route answers with an error and does not dispatch whenever rules
\* is missing, not an array or empty, diff is not a string, or files is not
\* an array
C10_ValidationRejects ==
  (\/ ~IsArray(body.rules)
   \/ (IsArray(body.rules) /\ Len(body.rules.arr) = 0)
   \/ ~IsString(body.diff)
   \/ ~IsArray(body.files))
  => /\ ~Dispatched
     /\ pc = "answered" => response.status \in {400, 500}

\* the credential of the completion backend is missing: the environment
\* variable in the "threadline" revision, the apiKey field in the "expert" one
CredentialMissing ==
  IF revision = "threadline" THEN ~Truthy(envKey) ELSE ~Truthy(body.apiKey)

\* C11: with the credential missing the check is aborted before dispatch: no
\* task is started, no backend call made, no per-rule result produced
C11_NoDispatchWithoutKey ==
  CredentialMissing =>
    /\ ~Dispatched
    /\ experts = <<>> /\ call = <<>> /\ timer = <<>> /\ race = <<>>
    /\ expertResults = <<>> /\ report = NoReport
    /\ response.status # 200

\* the request is well-formed and is answered 500 for the missing key alone
C11_Witness ==
  /\ revision = "threadline"
  /\ CredentialMissing
  /\ ~RulesInvalid(body) /\ ~DiffInvalid(body) /\ ~FilesInvalid(body)
  /\ pc = "answered"
  /\ response.status = 500

\* the request has one rule, whose patterns all compile and match no file
SingleNonMatching ==
  /\ Returned
  /\ Len(experts) = 1
  /\ \A f \in DOMAIN body.files.arr : \A p \in DOMAIN experts[1].patterns :
       MatchTable[revision][body.files.arr[f]][experts[1].patterns[p]] = "false"

-----------------------------------------------------------------------------
\* Properties of matchesPattern (under MatchSpec)

Tested == verdict # "none"

\* C14: "**" matches any number of path segments including zero: "**/*.ts"
\* matches both "src/a/b.ts" and the top-level path "a.ts"
C14_DoubleStarZeroSegments ==
  (Tested /\ testedPattern = P_dstar_ts /\ testedPath \in {F_src_a_b_ts, F_a_ts})
    => verdict = "true"

\* testedPath is "src/" followed by a '/'-free name ending in ".ts"
InSrcEndsTs ==
  /\ Len(testedPath) >= 7
  /\ SubSeq(testedPath, 1, 4) = <<"s", "r", "c", "/">>
  /\ \A i \in 5..Len(testedPath) : testedPath[i] # "/"
  /\ SubSeq(testedPath, Len(testedPath) - 2, Len(testedPath)) = <<".", "t", "s">>

\* C15: "src/*.ts" matches a path iff the path is "src/" followed by a
\* '/'-free name ending in ".ts"
C15_SingleStarNoSlash ==
  (Tested /\ testedPattern = P_src_star_ts) => (verdict = "true" <=> InSrcEndsTs)

-----------------------------------------------------------------------------
\* Properties of the command-line client (under CliSpec)

Exited == cliPc = "exited"
Aborted == thrown # NoError

\* the report received holds a result with status attention
AttentionReported ==
  /\ reviewResponse.kind = "report"
  /\ \E i \in DOMAIN reviewResponse.results : reviewResponse.results[i] = "attention"

\* C13: checkCommand exits with 1 iff the report holds an attention result or
\* the check aborted with a top-level error, and with 0 in every other case:
\* rules timed out or failed, no valid rule found, no file changed
C13_ExitCode ==
  Exited =>
    /\ exitCode = Num(IF AttentionReported \/ Aborted THEN 1 ELSE 0)
    /\ (~Aborted /\ foundExperts = <<>>) => exitCode = Num(0)
    /\ (~Aborted /\ gitDiff # NoDiff /\ gitDiff.changedFiles = <<>>) => exitCode = Num(0)

\* a report without attention whose metadata counts a timeout and a failure
C13_Witness ==
  /\ Exited
  /\ exitCode = Num(0)
  /\ reviewResponse.kind = "report"
  /\ reviewResponse.results = <<"compliant">>
  /\ reviewResponse.metadata.timedOut > 0
  /\ reviewResponse.metadata.errors > 0

Ran(command) == \E i \in DOMAIN commands : commands[i] = command

AnyStaged == \E i \in DOMAIN repo.files : repo.files[i].index \notin {" ", "?"}

\* C20: getGitDiff uses the staged diff whenever anything is staged; else,
\* with any change in the working copy, the unstaged diff, and it never asks
\* for the staged one; else it returns the empty diff and no changed file
C20_LocalDiffChoice ==
  /\ (~AnyStaged) => ~Ran("diff --cached")
  /\ gitDiff # NoDiff =>
       /\ AnyStaged =>
            /\ gitDiff.diff = CachedDiff(repo.files)
            /\ Ran("diff --cached") /\ ~Ran("diff")
       /\ (~AnyStaged /\ repo.files # <<>>) =>
            /\ gitDiff.diff = WorkingDiff(repo.files)
            /\ Ran("diff")
       /\ repo.files = <<>> =>
            /\ gitDiff = [diff |-> <<>>, changedFiles |-> <<>>]
            /\ ~Ran("diff")

\* a.ts is staged and b.ts changed in the working tree: the diff is the staged one
C20_Witness ==
  /\ gitDiff # NoDiff
  /\ AnyStaged
  /\ \E i \in DOMAIN repo.files : repo.files[i].working_dir = "M"
  /\ gitDiff.diff = <<"a.ts">>
  /\ Ran("diff --cached")

-----------------------------------------------------------------------------
\* Properties of getGitHubDiff (under CiSpec)

Resolved == commands # <<>>
InPullRequest == ciEnv.eventName = Str("pull_request")
OnTrunk == ciEnv.refName = Str("main")

\* the comparison commands of a range
Comparing(range) == { <<"diff">> \o range \o <<"-U200">>, <<"diffSummary">> \o range }

\* diff and file list both come from the range
FromRange(range) ==
  gitDiff = [diff |-> DiffText(range), changedFiles |-> SummaryFiles(range)]

\* C16: the states are tried in the order PR context, trunk-merge detection,
\* named branch.  In a PR context with base and head ref, diff and file list
\* come from origin/base...origin/head, with no merge detection and no other
\* comparison, even on the trunk with a commit SHA; outside a PR context, on
\* the trunk with a SHA, the parent lookup precedes every comparison
C16_PullRequestFirst ==
  /\ (Resolved /\ InPullRequest /\ Truthy(ciEnv.baseRef) /\ Truthy(ciEnv.headRef)) =>
       LET range == Range(ciEnv.baseRef.str, ciEnv.headRef.str)
       IN /\ \A i \in DOMAIN commands :
               commands[i] \in {<<"checkIsRepo">>} \cup Comparing(range)
          /\ gitDiff # NoDiff => FromRange(range)
  /\ (Resolved /\ ~InPullRequest /\ OnTrunk /\ Truthy(ciEnv.commitSha)) =>
       \A i \in DOMAIN commands :
         commands[i][1] \in {"diff", "diffSummary"} => commands[2][1] = "log"

\* a pull request towards main, run on the trunk ref with a SHA and a merge tip
C16_Witness ==
  /\ InPullRequest /\ OnTrunk /\ Truthy(ciEnv.commitSha)
  /\ Len(repo.parents) > 1
  /\ FromRange(Range(<<"main">>, <<"feature">>))

\* C17: in a PR context with base or head ref missing getGitHubDiff throws,
\* runs no diff command and falls back to no other comparison
C17_MissingRefThrows ==
  (Resolved /\ InPullRequest /\ (~Truthy(ciEnv.baseRef) \/ ~Truthy(ciEnv.headRef))) =>
    /\ thrown # NoError
    /\ gitDiff = NoDiff
    /\ commands = << <<"checkIsRepo">> >>

\* the head ref is there, the base ref is empty, and a ref name is known
C17_Witness ==
  /\ Resolved /\ InPullRequest
  /\ ciEnv.baseRef = EmptyStr /\ Truthy(ciEnv.headRef) /\ OnTrunk
  /\ repo.isRepo /\ repo.fault = "none"
  /\ thrown = [message |-> "GITHUB_BASE_REF or GITHUB_HEAD_REF is missing"]

\* C18: on a push to the trunk whose tip has more than one parent, outside a
\* PR context, diff and file list both come from origin/main~1...origin/main
C18_MergeRange ==
  (/\ ~InPullRequest /\ OnTrunk /\ Truthy(ciEnv.commitSha)
   /\ repo.fault \notin {"checkIsRepo", "log"}
   /\ Len(repo.parents) > 1
   /\ gitDiff # NoDiff)
    => FromRange(MergeRange)

\* C19: the trunk is never compared with itself
C19_NoTrunkSelfCompare ==
  \A i \in DOMAIN commands : commands[i] \notin Comparing(Range(<<"main">>, <<"main">>))

-----------------------------------------------------------------------------
\* Agreement of the diff and the file list, failures of git commands

\* the paths a sequence of paths holds
PathsOf(list) == { list[i] : i \in DOMAIN list }

\* C21: the changedFiles returned is derived from the same comparison as the
\* diff text: a file is in changedFiles iff the diff holds changes for it
C21_FilesAgreeWithDiff ==
  gitDiff # NoDiff => PathsOf(gitDiff.changedFiles) = PathsOf(gitDiff.diff)

\* the i-th command run was a git diff or diffSummary, and it failed
ComparisonFailedAt(i) ==
  \/ repo.fault \in {"diff", "all"} /\ commands[i][1] = "diff"
  \/ repo.fault = "diffSummary" /\ commands[i][1] = "diffSummary"
  \/ repo.fault = "mergeDiff" /\ commands[i] = <<"diff">> \o MergeRange \o <<"-U200">>
  \/ repo.fault = "mergeSummary" /\ commands[i] = <<"diffSummary">> \o MergeRange

\* C22: every failure of a git diff or diff-summary command propagates as a
\* thrown error; a failing origin/main~1...origin/main comparison is not
\* replaced by another comparison or a default diff
C22_ComparisonFailurePropagates ==
  \A i \in DOMAIN commands :
    ComparisonFailedAt(i) =>
      /\ thrown # NoError
      /\ gitDiff = NoDiff
      /\ i = Len(commands)

\* the branch-push comparison of the ref name
BranchRange == Range(<<"main">>, ciEnv.refName.str)

\* the parent lookup was run, and it fails
LookupFailed ==
  /\ ~InPullRequest /\ OnTrunk /\ Truthy(ciEnv.commitSha)
  /\ repo.isRepo /\ repo.fault \in {"log", "all"}
  /\ Resolved

-----------------------------------------------------------------------------
\* Properties of findExperts (under CliSpec)

\* C23: the list findExperts returns never holds two rules with the same id,
\* and holds exactly the rules of the .md files that pass validation, the
\* other files being skipped
C23_UniqueValidExperts ==
  /\ \A i, j \in DOMAIN foundExperts :
       foundExperts[i].id = foundExperts[j].id => i = j
  /\ \A i \in DOMAIN foundExperts :
       \E f \in DOMAIN expertsFolder.files :
         /\ expertsFolder.files[f].name = foundExperts[i].filePath
         /\ expertsFolder.files[f].frontmatter = "ok"
         /\ expertsFolder.files[f].body # EmptyStr

-----------------------------------------------------------------------------
\* Further properties of matchesPattern (under MatchSpec)

\* C26: "**" is handled before "*", so it matches text containing '/':
\* "src/**" matches "src/a/b.ts" and "**/api/**" matches "x/api/y/z.ts"
C26_DoubleStarCrossesSlash ==
  (/\ Tested
   /\ \/ testedPattern = P_src_dstar /\ testedPath = F_src_a_b_ts
      \/ testedPattern = P_dstar_api_dstar /\ testedPath = F_x_api_y_z_ts)
    => verdict = "true"

\* the pattern holds no wildcard character
Literal(p) == \A i \in DOMAIN p : p[i] \notin {"*", "?"}

\* C30: a pattern without * and ? matches a path iff the path is identical to
\* the pattern
C30_LiteralIsExact ==
  (Tested /\ Literal(testedPattern)) =>
    (verdict = "true" <=> testedPath = testedPattern)

-----------------------------------------------------------------------------
\* Further properties of the dispatch (under Spec)

\* C24: the outcome of a task is fixed by whichever of its backend completion
\* and its timer happens first: once its race has settled, no later event
\* changes the outcome, and in a returned report a task whose timer won holds
\* the timeout result and is counted once, as timedOut
C24_FirstEventWins ==
  [][/\ \A i \in DOMAIN race : race[i] # Pending => race'[i] = race[i]
     /\ Returned =>
          /\ Returned' /\ report' = report /\ counted' = counted
          /\ expertResults' = expertResults
     /\ Returned' =>
          \A i \in DOMAIN race' :
            TimedOutTask(i)' =>
              /\ counted'[i] = "timedOut"
              /\ expertResults'[i] = TimeoutResult(experts'[i])
              /\ Metadata'.timedOut = CountOf("timedOut")']_vars

\* rule 1 timed out and its backend call completed afterwards; the backend call
\* of rule 2 answered first and its timer fired afterwards
C24_Witness ==
  /\ Returned
  /\ Len(experts) = 2
  /\ TimedOutTask(1) /\ call[1] = "done"
  /\ BackendEnded(2, {"json"}) /\ timer[2] = "fired"
  /\ counted[2] = "completed"

\* the race of rule i has settled with a per-rule result the loop can read
Readable(i) ==
  /\ race[i].state = "fulfilled"
  /\ ~IncludesThrows(race[i].value.reasoning)

\* C25: the tasks are independent: at dispatch the backend call of every
\* matching rule is started, and once the tasks have settled the per-rule
\* result of rule i is the outcome of its own race, whatever the outcomes and
\* the completion order of the other rules' tasks
C25_TasksIndependent ==
  Dispatched =>
    /\ \A i \in DOMAIN experts :
         WorkerStart(revision, experts[i], body.files.arr) = Pending
           => call[i] \in {"pending", "done"}
    /\ (\A j \in DOMAIN race : race[j] # Pending) =>
         \A i \in DOMAIN race :
           Readable(i) => Returned /\ expertResults[i] = race[i].value

\* the backend call of rule i ended before its timer could settle the race
FinishedFirst(i) ==
  BackendEnded(i, {"throw", "empty", "badjson", "json"})

\* C28: timedOut is the number of tasks whose timer fired before the backend
\* call completed; a task that finished before its timer (no file matched, the
\* backend answered, or its error was caught) is not counted as timed out,
\* whatever its reasoning says
C28_TimedOutCountsTimers ==
  Returned =>
    /\ Metadata.timedOut = Cardinality({i \in DOMAIN experts : TimedOutTask(i)})
    /\ \A i \in DOMAIN experts :
         (NoMatch(i) \/ FinishedFirst(i)) => counted[i] # "timedOut"

\* C29: every result of the report belongs to a rule counted in completed, so
\* a rule counted in timedOut or errors has no result in the report and the
\* report holds at most metadata.completed results
C29_VisibleWereCompleted ==
  Returned =>
    /\ \A i \in DOMAIN experts :
         counted[i] \in {"timedOut", "errors"} =>
           \A k \in DOMAIN report.results :
             report.results[k] # expertResults[i]
    /\ Len(report.results) <= Metadata.completed

====
